---- MODULE Spec2Model ----
(***************************************************************************)
(* The chunked playback engine of src/App.tsx: the React component's       *)
(* state, its refs (current audio source, audio cache), the memoised       *)
(* playChunk closure, the synthesis requests in flight and the audio       *)
(* nodes whose "ended" event is still to be delivered.                     *)
(*                                                                         *)
(* One action is one event-loop task: a UI handler or an asynchronous      *)
(* continuation, followed by the renders and effects it causes.            *)
(***************************************************************************)
EXTENDS Integers, Sequences, FiniteSets, Bags, TLC

\* ------------------------------------------------------------- bounds
MaxChunks == 3     \* number of chunks the text "A" splits into
MaxInFlight == 2   \* synthesis requests that may be outstanding at once
MaxDetached == 1   \* stopped sources whose "ended" event is still pending
MaxCommands == 3   \* engine commands the user issues in one run

\* ---------------------------------------------------------- constants
\* The ids of the voice catalog (the first two of its five entries).
VOICE_OPTIONS == <<"Puck", "Charon">>

Voices == {VOICE_OPTIONS[i] : i \in 1..Len(VOICE_OPTIONS)}

\* The texts the user may type: empty, whitespace only, a text from which
\* the splitter produces nothing, a long text and a one-sentence text.
Texts == {"", " ", "Z", "A", "B"}

NoError == "null"
EnterText == "Please enter text to read."
LoadFailed == "Failed to load audio."

NoSource == [st |-> "none"]
NoKey == <<>>
EmptyCache == <<>>

VARIABLES
    text,              \* useState text
    selectedVoice,     \* useState selectedVoice
    isLoading,         \* useState isLoading
    isPlaying,         \* useState isPlaying
    error,             \* useState error
    mode,              \* useState mode: "edit" | "read"
    chunks,            \* useState chunks
    activeChunkIndex,  \* useState activeChunkIndex (0-based)
    sourceNodeRef,     \* useRef: the source last started, or NoSource
    audioCacheRef,     \* useRef: function from <<voice, index>> to a buffer
    playChunkMemo,     \* what the memoised playChunk closure captured
    inflight,          \* bag of generateSpeech+decodeAudioData calls not yet settled
    audioNodes,        \* sources no longer referenced by sourceNodeRef
    issued,            \* keys synthesised since the cache was last cleared
    clean,             \* an uninterrupted run since startReading
    calls,             \* synthesis calls of the uninterrupted run
    inTime,            \* each chunk of the run ended with no prefetch pending
    commands,          \* number of commands the user has issued
    last               \* the event that produced this state

vars == <<text, selectedVoice, isLoading, isPlaying, error, mode, chunks,
          activeChunkIndex, sourceNodeRef, audioCacheRef, playChunkMemo,
          inflight, audioNodes, issued, clean, calls, inTime, commands,
          last>>

\* ------------------------------------------------------ collaborators
\* String.prototype.trim on the model's texts.
Trim(t) == IF t = " " THEN "" ELSE t

\* utils/textHelper: pure, deterministic, may return the empty sequence.
splitTextIntoChunks(t) ==
    IF t = "A" THEN [i \in 1..MaxChunks |-> <<"A", i - 1>>]
    ELSE IF t = "B" THEN << <<"B", 0>> >>
    ELSE <<>>

\* services/geminiService + utils/audioHelper: the buffer decoded from the
\* speech synthesised for chunkText with voice.
AudioBufferOf(chunkText, voice) == <<chunkText, voice>>

\* ------------------------------------------------------------ helpers
RemoveAt(seq, k) == [i \in 1..(Len(seq) - 1) |-> IF i < k THEN seq[i] ELSE seq[i + 1]]

CacheKey(voice, index) == <<voice, index>>

CacheHas(s, voice, index) == CacheKey(voice, index) \in DOMAIN s.cache

CachePut(cache, key, buffer) ==
    [k \in (DOMAIN cache) \cup {key} |-> IF k = key THEN buffer ELSE cache[k]]

\* The component's state and refs as one record threaded through the code.
\* synth: the key a synthesis call was issued for in this task (NoKey if
\* none); started: the index a source was started for in this task (-1 if
\* none); dirty: setChunks was called, so chunks is a new array.
Cur ==
    [text |-> text, voice |-> selectedVoice, loading |-> isLoading,
     playing |-> isPlaying, error |-> error, mode |-> mode, chunks |-> chunks,
     active |-> activeChunkIndex, ref |-> sourceNodeRef, cache |-> audioCacheRef,
     memo |-> playChunkMemo, inflight |-> inflight, nodes |-> audioNodes,
     issued |-> issued, synth |-> NoKey, started |-> -1, dirty |-> FALSE]

ReactState(s) ==
    <<s.text, s.voice, s.loading, s.playing, s.error, s.mode, s.chunks, s.active>>

\* ---------------------------------------------------------- stopAudio
\* stop() on a sounding source makes the audio context deliver its "ended"
\* event later; stop() on a source that already ended does nothing.
\* A stopped source whose onended can do nothing (armed is false) is not
\* followed further.
stopAudio(s) ==
    IF s.ref = NoSource THEN s
    ELSE [s EXCEPT !.ref = NoSource,
                   !.nodes = IF s.ref.st = "sounding" /\ s.ref.armed
                             THEN Append(@, [s.ref EXCEPT !.st = "stopped"])
                             ELSE @]

\* --------------------------------------------- getAudioBufferForChunk
\* What a call of playChunk(index) reads of the render that created it (m):
\* selectedVoice, chunks, and onended's guard
\* activeChunkIndex === index && isPlaying, whose operands never change
\* within one closure.
Closure(m, index) ==
    [voice |-> m.voice, chunks |-> m.chunks,
     armed |-> m.active = index /\ m.playing]

\* The cache miss of getAudioBufferForChunk: generateSpeech is called and
\* the call stays in flight until it settles.  kind tells whether a
\* playChunk awaits the buffer ("play") or nothing does ("prefetch").
IssueSynthesis(s, kind, index, c) ==
    [s EXCEPT !.inflight = @ (+) SetToBag({[kind |-> kind, index |-> index,
                                            voice |-> c.voice, chunks |-> c.chunks,
                                            armed |-> kind = "play" /\ c.armed]}),
              !.synth = CacheKey(c.voice, index),
              !.issued = @ \cup {CacheKey(c.voice, index)}]

\* ---------------------------------------------------------- playChunk
\* playChunk from the resolution of the awaited buffer to its end.
\* sourceNodeRef.current = source; source.start().  A source the ref held
\* that is still sounding keeps sounding in the audio context.
StartSource(s, source) ==
    [s EXCEPT !.ref = source,
              !.started = source.index,
              !.nodes = IF s.ref # NoSource /\ s.ref.st = "sounding"
                        THEN Append(@, s.ref) ELSE @]

\* playChunkResume without its stopAudio() call.
playChunkResumeNoStop(s, index, c) ==
    LET s2 == [StartSource(s, [index |-> index, armed |-> c.armed,
                               len |-> Len(c.chunks), st |-> "sounding"])
               EXCEPT !.loading = FALSE]
    IN  IF index + 1 < Len(c.chunks) /\ ~CacheHas(s2, c.voice, index + 1)
        THEN IssueSynthesis(s2, "prefetch", index + 1, c)
        ELSE s2

playChunkResume(s, index, c) ==
    LET s1 == stopAudio(s)
        s2 == [StartSource(s1, [index |-> index, armed |-> c.armed,
                                len |-> Len(c.chunks), st |-> "sounding"])
               EXCEPT !.loading = FALSE]
    IN  IF index + 1 < Len(c.chunks) /\ ~CacheHas(s2, c.voice, index + 1)
        THEN IssueSynthesis(s2, "prefetch", index + 1, c)
        ELSE s2

\* playChunk without its setError(null).
playChunkKeepError(s, index, m) ==
    IF index < 0 \/ index >= Len(m.chunks)
    THEN [s EXCEPT !.playing = FALSE]
    ELSE LET s1 == [s EXCEPT !.loading = TRUE]
         IN  IF CacheHas(s1, m.voice, index)
             THEN playChunkResume(s1, index, Closure(m, index))
             ELSE IssueSynthesis(s1, "play", index, Closure(m, index))

\* playChunk(index) as called by the playback effect; a cache hit resumes
\* in the same task.
playChunk(s, index, m) ==
    IF index < 0 \/ index >= Len(m.chunks)
    THEN [s EXCEPT !.playing = FALSE]
    ELSE LET s1 == [s EXCEPT !.error = NoError, !.loading = TRUE]
         IN  IF CacheHas(s1, m.voice, index)
             THEN playChunkResume(s1, index, Closure(m, index))
             ELSE IssueSynthesis(s1, "play", index, Closure(m, index))

\* source.onended of a source created by playChunk.
onended(s, src) ==
    IF src.armed
    THEN IF s.active + 1 < src.len
         THEN [s EXCEPT !.active = @ + 1]
         ELSE [s EXCEPT !.playing = FALSE]
    ELSE s

\* ------------------------------------------------- render and effects
\* useCallback(playChunk, [chunks, selectedVoice]): a new closure when
\* chunks is a new array or the voice changed, else the memoised one.
MemoFor(prev, s) ==
    IF s.dirty \/ s.voice # prev.voice
    THEN [playing |-> s.playing, active |-> s.active,
          chunks |-> s.chunks, voice |-> s.voice]
    ELSE s.memo

\* useEffect [text, mode]: invalidate chunks and cache in edit mode.
EffectInvalidate(prev, cur, s) ==
    IF (cur.text # prev.text \/ cur.mode # prev.mode) /\ cur.mode = "edit"
    THEN [s EXCEPT !.chunks = <<>>, !.dirty = TRUE,
                   !.cache = EmptyCache, !.issued = {}]
    ELSE s

\* useEffect [selectedVoice]: stop, pause and clear the cache.
EffectVoice(prev, cur, s) ==
    IF cur.voice # prev.voice
    THEN [stopAudio(s) EXCEPT !.playing = FALSE,
                              !.cache = EmptyCache, !.issued = {}]
    ELSE s

\* useEffect [activeChunkIndex, isPlaying, mode, chunks.length].
EffectPlayback(prev, cur, s, m) ==
    IF cur.active # prev.active \/ cur.playing # prev.playing
       \/ cur.mode # prev.mode \/ Len(cur.chunks) # Len(prev.chunks)
    THEN IF cur.playing /\ cur.mode = "read" /\ Len(cur.chunks) > 0
         THEN playChunk(s, cur.active, m)
         ELSE stopAudio(s)
    ELSE s

\* Render the pending state s after the rendered state prev, run the
\* effects whose dependencies changed, and render again while they set state.
RECURSIVE Render(_, _)
Render(prev, s) ==
    LET m  == MemoFor(prev, s)
        s0 == [s EXCEPT !.memo = m, !.dirty = FALSE]
        sA == EffectInvalidate(prev, s, s0)
        sB == EffectVoice(prev, s, sA)
        sC == EffectPlayback(prev, s, sB, m)
    IN  IF ReactState(sC) = ReactState(s) /\ ~sC.dirty
        THEN sC
        ELSE Render(s, sC)

\* ----------------------------------------------------------- handlers
\* handlePlayPause without the return on an empty split.
handlePlayPauseNoEmptyCheck(s) ==
    IF Trim(s.text) = ""
    THEN [s EXCEPT !.error = EnterText]
    ELSE IF s.mode = "edit"
    THEN [s EXCEPT !.chunks = splitTextIntoChunks(s.text), !.dirty = TRUE,
                   !.active = 0, !.mode = "read", !.playing = TRUE]
    ELSE [s EXCEPT !.playing = ~s.playing]

handlePlayPause(s) ==
    IF Trim(s.text) = ""
    THEN [s EXCEPT !.error = EnterText]
    ELSE IF s.mode = "edit"
    THEN LET newChunks == splitTextIntoChunks(s.text)
         IN  IF Len(newChunks) = 0 THEN s
             ELSE [s EXCEPT !.chunks = newChunks, !.dirty = TRUE,
                            !.active = 0, !.mode = "read", !.playing = TRUE]
    ELSE [s EXCEPT !.playing = ~s.playing]

handleNext(s) ==
    IF s.active < Len(s.chunks) - 1
    THEN [stopAudio(s) EXCEPT !.active = @ + 1, !.playing = TRUE]
    ELSE s

handlePrev(s) ==
    IF s.active > 0
    THEN [stopAudio(s) EXCEPT !.active = @ - 1, !.playing = TRUE]
    ELSE s

handleModeChange(s, newMode) ==
    IF newMode = "edit"
    THEN stopAudio([s EXCEPT !.mode = newMode, !.playing = FALSE])
    ELSE [s EXCEPT !.mode = newMode]

\* -------------------------------------------------------------- steps
Fresh(s) ==
    /\ s.inflight = EmptyBag /\ s.nodes = <<>>
    /\ s.ref = NoSource /\ s.cache = EmptyCache

Bounded(s) == BagCardinality(s.inflight) <= MaxInFlight /\ Len(s.nodes) <= MaxDetached

\* The event a task handled: its name; for a settled call its kind, index
\* and voice; for a pause the active index if it was sounding; the key a synthesis
\* call was issued for; whether a resuming playChunk found a source sounding.
\* live: the call that settles is the one the current playback waits for.
Event(op, kind, index, voice, s) ==
    [op |-> op, kind |-> kind, index |-> index, voice |-> voice,
     synth |-> s.synth, started |-> s.started,
     overlap |-> op = "fetchSettled" /\ kind = "play" /\ sourceNodeRef.st = "sounding",
     live |-> FALSE]

\* The call r was issued by playChunk for the current voice, the current
\* chunks and the active index, and playback is still wanted.
Live(r) ==
    /\ r.kind = "play"
    /\ r.voice = selectedVoice
    /\ r.index = activeChunkIndex
    /\ r.chunks = chunks
    /\ isPlaying
    /\ mode = "read"

\* The event of a call r that settles.
FetchEvent(op, r, s) ==
    [Event(op, r.kind, r.index, r.voice, s) EXCEPT !.live = Live(r)]

\* The engine's commands; typing text is free.
Commands == {"setSelectedVoice", "startReading", "playPause",
             "next", "prev", "modeChange"}

\* A prefetch is in flight.
PrefetchPending == \E r \in BagToSet(inflight) : r.kind = "prefetch"

\* The task ends in state s: publish it.
Commit(s, ev, cl) ==
    /\ Bounded(s)
    /\ commands' = IF ev.op \in Commands THEN commands + 1 ELSE commands
    /\ text' = s.text
    /\ selectedVoice' = s.voice
    /\ isLoading' = s.loading
    /\ isPlaying' = s.playing
    /\ error' = s.error
    /\ mode' = s.mode
    /\ chunks' = s.chunks
    /\ activeChunkIndex' = s.active
    /\ sourceNodeRef' = s.ref
    /\ audioCacheRef' = s.cache
    /\ playChunkMemo' = s.memo
    /\ inflight' = s.inflight
    /\ audioNodes' = s.nodes
    /\ issued' = s.issued
    /\ clean' = cl
    /\ calls' = IF cl
                THEN (IF ev.op = "startReading" THEN 0 ELSE calls)
                     + (IF s.synth # NoKey THEN 1 ELSE 0)
                ELSE 0
    /\ inTime' = (cl /\ (ev.op = "startReading"
                          \/ (inTime /\ ~(ev.op = "naturalEnd" /\ PrefetchPending))))
    /\ last' = ev

Init ==
    /\ text = ""
    /\ selectedVoice = VOICE_OPTIONS[1]
    /\ isLoading = FALSE
    /\ isPlaying = FALSE
    /\ error = NoError
    /\ mode = "edit"
    /\ chunks = <<>>
    /\ activeChunkIndex = 0
    /\ sourceNodeRef = NoSource
    /\ audioCacheRef = EmptyCache
    /\ playChunkMemo = [playing |-> FALSE, active |-> 0, chunks |-> <<>>,
                        voice |-> VOICE_OPTIONS[1]]
    /\ inflight = EmptyBag
    /\ audioNodes = <<>>
    /\ issued = {}
    /\ clean = FALSE
    /\ commands = 0
    /\ last = [op |-> "mount", kind |-> "", index |-> -1, voice |-> "",
               synth |-> NoKey, started |-> -1, overlap |-> FALSE,
               live |-> FALSE]
    /\ calls = 0
    /\ inTime = FALSE

\* onTextChange={setText}: the text is edited in edit mode.
SetText ==
    \E t \in Texts :
        /\ mode = "edit"
        /\ t # text
        /\ LET s == Render(Cur, [Cur EXCEPT !.text = t])
           IN  Commit(s, Event("setText", "", -1, "", s), FALSE)

\* onVoiceChange={setSelectedVoice}
SetSelectedVoice ==
    \E v \in Voices :
        /\ commands < MaxCommands
        /\ v # selectedVoice
        /\ LET s == Render(Cur, [Cur EXCEPT !.voice = v])
           IN  Commit(s, Event("setSelectedVoice", "", -1, "", s), FALSE)

\* onPlayPause={handlePlayPause}
PlayPause ==
    /\ commands < MaxCommands
    /\ LET s == Render(Cur, handlePlayPause(Cur))
           starts == mode = "edit" /\ s.mode = "read"
           pausing == mode = "read" /\ isPlaying /\ ~s.playing
       IN  Commit(s, Event(IF starts THEN "startReading" ELSE "playPause",
                           IF pausing THEN "pause" ELSE "",
                           IF pausing /\ sourceNodeRef.st = "sounding"
                              /\ sourceNodeRef.index = activeChunkIndex
                           THEN activeChunkIndex ELSE -1, "", s),
                  starts /\ Fresh(Cur))

\* onNext={handleNext}
Next_ ==
    /\ commands < MaxCommands
    /\ LET s == Render(Cur, handleNext(Cur))
       IN  Commit(s, Event("next", "", -1, "", s), FALSE)

\* onPrev={handlePrev}
Prev ==
    /\ commands < MaxCommands
    /\ LET s == Render(Cur, handlePrev(Cur))
       IN  Commit(s, Event("prev", "", -1, "", s), FALSE)

\* onModeChange={handleModeChange}
ModeChange ==
    \E newMode \in {"edit", "read"} :
        /\ commands < MaxCommands
        /\ LET s == Render(Cur, handleModeChange(Cur, newMode))
           IN  Commit(s, Event("modeChange", "", -1, "", s), FALSE)

\* A synthesis+decode call settles with a buffer: getAudioBufferForChunk
\* stores it, and the awaiting playChunk (if any) resumes.
FetchSettled ==
    \E r \in BagToSet(inflight) :
        LET s1 == [Cur EXCEPT
                     !.inflight = @ (-) SetToBag({r}),
                     !.cache = CachePut(@, CacheKey(r.voice, r.index),
                                        AudioBufferOf(r.chunks[r.index + 1], r.voice))]
            s2 == IF r.kind = "play" THEN playChunkResume(s1, r.index, r) ELSE s1
            s  == Render(Cur, s2)
        IN  Commit(s, FetchEvent("fetchSettled", r, s), clean)

\* A catch that treats the failed prefetch as playChunk's own failure.
catchAwaitedPrefetch(s, r) ==
    [s EXCEPT !.error = LoadFailed, !.loading = FALSE, !.playing = FALSE]

\* The handler of a rejected call r: playChunk's catch block for the call
\* it awaits, the logging .catch of the prefetch.
catch(s, r) ==
    IF r.kind = "play"
    THEN [s EXCEPT !.error = LoadFailed, !.loading = FALSE, !.playing = FALSE]
    ELSE s

\* A synthesis or decode call fails: playChunk's catch, or the prefetch's.
FetchFailed ==
    \E r \in BagToSet(inflight) :
        LET s1 == [Cur EXCEPT !.inflight = @ (-) SetToBag({r}),
                              !.issued = @ \ {CacheKey(r.voice, r.index)}]
            s  == Render(Cur, catch(s1, r))
        IN  Commit(s, FetchEvent("fetchFailed", r, s), FALSE)

\* The sounding source plays its buffer to the end.
NaturalEnd ==
    /\ sourceNodeRef # NoSource
    /\ sourceNodeRef.st = "sounding"
    /\ LET s1 == [Cur EXCEPT !.ref.st = "ended"]
           s  == Render(Cur, onended(s1, sourceNodeRef))
       IN  Commit(s, Event("naturalEnd", "", sourceNodeRef.index, "", s), clean)

\* The "ended" event of a source stopped by stopAudio is delivered.
StoppedEnd ==
    \E k \in 1..Len(audioNodes) :
        /\ audioNodes[k].st = "stopped"
        /\ LET s1 == [Cur EXCEPT !.nodes = RemoveAt(@, k)]
               s  == Render(Cur, onended(s1, audioNodes[k]))
           IN  Commit(s, Event("stoppedEnd", "", audioNodes[k].index, "", s), FALSE)

Next ==
    \/ SetText
    \/ SetSelectedVoice
    \/ PlayPause
    \/ Next_
    \/ Prev
    \/ ModeChange
    \/ FetchSettled
    \/ FetchFailed
    \/ NaturalEnd
    \/ StoppedEnd

Spec == Init /\ [][Next]_vars

\* ------------------------------------------------------------- claims
Sounding(src) == src.st = "sounding"

SoundingCount ==
    (IF Sounding(sourceNodeRef) THEN 1 ELSE 0)
    + Cardinality({k \in 1..Len(audioNodes) : Sounding(audioNodes[k])})

RequestKey(r) == CacheKey(r.voice, r.index)

\* A resolution of index j for the current voice is under way or has just
\* delivered its buffer.
Resolving(j) ==
    \/ \E r \in BagToSet(inflight) :
           r.kind = "play" /\ r.index = j /\ r.voice = selectedVoice
    \/ Sounding(sourceNodeRef) /\ sourceNodeRef.index = j

\* C1: a fetch issued by playChunk for (v, i) that settles successfully
\* when the current voice is not v or activeChunkIndex is not i starts no
\* audio source and leaves activeChunkIndex unchanged.
C1_StaleResultIgnored ==
    [][(/\ last'.op = "fetchSettled"
        /\ last'.kind = "play"
        /\ (last'.voice # selectedVoice \/ last'.index # activeChunkIndex))
       => (/\ (sourceNodeRef' = sourceNodeRef \/ ~Sounding(sourceNodeRef'))
           /\ activeChunkIndex' = activeChunkIndex)]_vars

\* C2 (I1): isPlaying implies read mode, chunks non-empty and
\* 0 <= activeChunkIndex < chunks.length.
C2_PlayingImpliesReadable ==
    isPlaying => (/\ mode = "read"
                  /\ Len(chunks) > 0
                  /\ 0 <= activeChunkIndex
                  /\ activeChunkIndex < Len(chunks))

\* C3 (I2): at most one source is sounding, and every source the ref no
\* longer holds has been stopped.
C3_AtMostOneSounding ==
    /\ SoundingCount <= 1
    /\ \A k \in 1..Len(audioNodes) : audioNodes[k].st = "stopped"

\* C3 witness: a playChunk resumed while an earlier source was sounding,
\* stopped it and started its own.
C3_Witness ==
    /\ last.op = "fetchSettled"
    /\ last.overlap
    /\ Sounding(sourceNodeRef)
    /\ Len(audioNodes) = 1

\* C4: while playing, the natural end of the source sounding the active
\* index i moves to i+1 and resolves it when i+1 < chunks.length, and
\* otherwise clears isPlaying and keeps activeChunkIndex.
C4_AutoAdvance ==
    [][(/\ last'.op = "naturalEnd"
        /\ isPlaying
        /\ mode = "read"
        /\ sourceNodeRef.index = activeChunkIndex)
       => IF activeChunkIndex + 1 < Len(chunks)
          THEN /\ activeChunkIndex' = activeChunkIndex + 1
               /\ isPlaying'
               /\ \E j \in {activeChunkIndex + 1} : Resolving(j)'
          ELSE /\ ~isPlaying'
               /\ activeChunkIndex' = activeChunkIndex]_vars

\* C5: an uninterrupted run after startReading, in which every call
\* succeeds and every source ends naturally, comes to rest only at the
\* last chunk with isPlaying false.
C5_RunReachesEnd ==
    (/\ clean
     /\ inflight = EmptyBag
     /\ ~Sounding(sourceNodeRef)
     /\ audioNodes = <<>>)
    => (~isPlaying /\ activeChunkIndex = Len(chunks) - 1)

\* C6: in read mode with at least one chunk, activeChunkIndex stays
\* within [0, chunks.length - 1].
C6_IndexInBounds ==
    (mode = "read" /\ Len(chunks) >= 1)
    => (0 <= activeChunkIndex /\ activeChunkIndex < Len(chunks))

\* C7: after a pause of the source sounding index i, isPlaying is false
\* and activeChunkIndex stays i until the next command; a play/pause that
\* follows sounds index i again without a synthesis call.
C7_PauseKeepsIndex ==
    [][(last.op = "playPause" /\ last.kind = "pause" /\ last.index >= 0)
       => /\ (~isPlaying /\ activeChunkIndex = last.index)
          /\ (last'.op \notin Commands
               => (~isPlaying' /\ activeChunkIndex' = activeChunkIndex))
          /\ (last'.op = "playPause"
               => (/\ last'.synth # CacheKey(selectedVoice, last.index)
                   /\ Sounding(sourceNodeRef')
                   /\ sourceNodeRef'.index = last.index))]_vars

\* C8: the audio cache is empty when startReading issues the first
\* resolution of the new chunk sequence.
C8_CacheEmptyAtStart ==
    [][last'.op = "startReading" => audioCacheRef = EmptyCache]_vars

\* C9: no synthesis call is issued for a key that already had one since
\* the cache was last cleared.
C9_OneSynthesisPerKey ==
    [][last'.synth # NoKey => last'.synth \notin issued]_vars

\* C10 (I4): a settled call never overwrites a cache entry, and no
\* awaited call and prefetch call are in flight for the same key.
C10_NoSameKeyRace ==
    [][/\ (last'.op = "fetchSettled"
            => CacheKey(last'.voice, last'.index) \notin DOMAIN audioCacheRef)
       /\ \A r1, r2 \in BagToSet(inflight') :
              (r1.kind = "play" /\ r2.kind = "prefetch")
              => RequestKey(r1) # RequestKey(r2)]_vars

\* A resolution of index j for the current voice is issued by this step:
\* a synthesis call, or a hit on the cached entry, which starts the source.
ResolutionIssued(j) ==
    \/ last'.synth = CacheKey(selectedVoice', j)
    \/ /\ CacheKey(selectedVoice', j) \in DOMAIN audioCacheRef
       /\ last'.started = j

\* C11: the failure of the fetch the playback waits for sets error, clears
\* isPlaying and isLoading, starts no source and issues no call; the
\* play/pause, or the next or prev off the boundary, that follows clears
\* error and issues a resolution for the index it makes active.
C11_ErrorPropagation ==
    [][/\ (last'.op = "fetchFailed" /\ last'.live)
          => (/\ error' = LoadFailed
              /\ ~isPlaying'
              /\ ~isLoading'
              /\ ~Sounding(sourceNodeRef')
              /\ last'.synth = NoKey
              /\ activeChunkIndex' = activeChunkIndex)
       /\ (last.op = "fetchFailed" /\ last.live)
          => (/\ (last'.op = "playPause"
                   => (error' = NoError /\ isPlaying'
                       /\ ResolutionIssued(activeChunkIndex)))
              /\ (last'.op = "next" /\ activeChunkIndex + 1 < Len(chunks)
                   => (error' = NoError /\ isPlaying'
                       /\ ResolutionIssued(activeChunkIndex + 1)))
              /\ (last'.op = "prev" /\ activeChunkIndex > 0
                   => (error' = NoError /\ isPlaying'
                       /\ ResolutionIssued(activeChunkIndex - 1))))]_vars

\* C11 witness: the awaited fetch has just failed.
C11_Witness ==
    /\ last.op = "fetchFailed"
    /\ last.live
    /\ error = LoadFailed
    /\ ~isPlaying

\* C12: a prefetch that settles or fails leaves mode, activeChunkIndex,
\* isPlaying, isLoading, error, the chunks and the sources as they are; a
\* prefetch that settles writes the cache entry of its own key and no
\* other, a prefetch that fails writes none.
C12_PrefetchInvisible ==
    [][(last'.op \in {"fetchSettled", "fetchFailed"} /\ last'.kind = "prefetch")
          => LET key == CacheKey(last'.voice, last'.index)
             IN  /\ UNCHANGED <<mode, activeChunkIndex, isPlaying, isLoading,
                                error, chunks, selectedVoice, text,
                                sourceNodeRef, audioNodes, playChunkMemo>>
                 /\ last'.synth = NoKey
                 /\ DOMAIN audioCacheRef' =
                        IF last'.op = "fetchSettled"
                        THEN DOMAIN audioCacheRef \cup {key}
                        ELSE DOMAIN audioCacheRef
                 /\ \A k \in DOMAIN audioCacheRef \ {key} :
                        audioCacheRef'[k] = audioCacheRef[k]]_vars

\* C12 witness: a prefetch has settled during playback and its entry is in
\* the cache.
C12_Witness ==
    /\ last.op = "fetchSettled"
    /\ last.kind = "prefetch"
    /\ CacheKey(last.voice, last.index) \in DOMAIN audioCacheRef
    /\ Sounding(sourceNodeRef)
    /\ isPlaying

\* C13: the failure of a fetch issued for a voice that is no longer
\* selected, for an index that is no longer active, or while playback is
\* no longer wanted, leaves error and isPlaying as they are and does not
\* stop the sounding source.
C13_StaleFailureIgnored ==
    [][(/\ last'.op = "fetchFailed"
        /\ last'.kind = "play"
        /\ \/ last'.voice # selectedVoice
           \/ last'.index # activeChunkIndex
           \/ ~isPlaying)
          => (/\ error' = error
              /\ isPlaying' = isPlaying
              /\ sourceNodeRef' = sourceNodeRef)]_vars

\* The fetch that isLoading reports: issued by playChunk for the current
\* voice and the active index, still in flight, playback still wanted.
AwaitedFetchInFlight ==
    /\ isPlaying
    /\ \E r \in BagToSet(inflight) :
          /\ r.kind = "play"
          /\ r.voice = selectedVoice
          /\ r.index = activeChunkIndex

\* C14: isLoading is true exactly when a fetch issued for the current voice
\* and the active index is in flight and isPlaying is still true.
C14_LoadingIffAwaitedFetch ==
    isLoading <=> AwaitedFetchInFlight

\* C15: a source sounds only in reading mode with isPlaying true.
C15_NoSoundUnlessPlaying ==
    Sounding(sourceNodeRef) => (mode = "read" /\ isPlaying)

\* The step is a command of the user that asks for playback.
PlaybackCommand ==
    last'.op \in {"startReading", "playPause", "next", "prev"}

\* C16: a change of voice leaves no source sounding, the cache empty and
\* isPlaying false, with activeChunkIndex, chunks and mode as they were;
\* the step that follows it, unless it is a play/pause, next or prev of
\* the user, starts no source and leaves isPlaying false.
C16_ChangeVoice ==
    [][/\ last'.op = "setSelectedVoice"
          => (/\ ~Sounding(sourceNodeRef')
              /\ audioCacheRef' = EmptyCache
              /\ ~isPlaying'
              /\ UNCHANGED <<activeChunkIndex, chunks, mode>>)
       /\ (last.op = "setSelectedVoice" /\ ~PlaybackCommand)
          => (~isPlaying' /\ ~Sounding(sourceNodeRef'))]_vars

\* C17: the "ended" event of a stopped source changes neither
\* activeChunkIndex nor isPlaying.
C17_StoppedSourcesSilent ==
    [][last'.op = "stoppedEnd"
          => UNCHANGED <<activeChunkIndex, isPlaying>>]_vars

\* C18: play/pause pressed in edit mode. With a blank text or a text that
\* splits into no chunk it leaves mode, chunks, activeChunkIndex, isPlaying
\* and the cache as they are and issues no resolution; otherwise chunks
\* becomes the split of the text, activeChunkIndex 0, mode "read",
\* isPlaying true, and a resolution for index 0 is issued.
C18_StartReading ==
    [][(last'.op \in {"startReading", "playPause"} /\ mode = "edit")
          => IF Trim(text) = "" \/ Len(splitTextIntoChunks(text)) = 0
             THEN /\ UNCHANGED <<mode, chunks, activeChunkIndex, isPlaying,
                                 audioCacheRef, inflight, sourceNodeRef>>
                  /\ last'.synth = NoKey
             ELSE /\ chunks' = splitTextIntoChunks(text)
                  /\ activeChunkIndex' = 0
                  /\ mode' = "read"
                  /\ isPlaying'
                  /\ ResolutionIssued(0)]_vars

\* C18 witness: reading has just been started from a text with chunks.
C18_Witness ==
    /\ last.op = "startReading"
    /\ mode = "read"
    /\ isPlaying
    /\ activeChunkIndex = 0
    /\ chunks = splitTextIntoChunks(text)
    /\ Len(chunks) > 0

\* This step starts a source for the chunk the playback is at: playChunk
\* resumed for the awaited fetch, or hit the cache.
StartsActive ==
    /\ last'.started # -1
    /\ last'.started = activeChunkIndex'
    /\ last'.op = "fetchSettled" => last'.live

\* When a source starts for index i and chunk i+1 exists, the audio of
\* (voice, i+1) is resolved: it is cached, or a synthesis call is issued.
PrefetchAhead ==
    (StartsActive /\ activeChunkIndex' + 1 < Len(chunks'))
        => LET key == CacheKey(selectedVoice', activeChunkIndex' + 1)
           IN  key \in DOMAIN audioCacheRef' \/ last'.synth = key

\* Nothing sounds, no call is in flight, no "ended" event is pending.
AtRest ==
    /\ inflight = EmptyBag
    /\ audioNodes = <<>>
    /\ ~Sounding(sourceNodeRef)

\* An uninterrupted run in which every prefetch settled before the chunk
\* before it ended, and that has come to rest, has reached the last chunk
\* and issued exactly one synthesis call for each chunk.
RunSynthesisesEachOnce ==
    (clean /\ inTime /\ AtRest)
        => /\ calls = Len(chunks)
           /\ activeChunkIndex = Len(chunks) - 1

\* C19: a source that starts for index i with a chunk i+1 has (voice, i+1)
\* resolved; an uninterrupted run over N chunks whose prefetches settle in
\* time takes exactly N synthesis calls.
C19_PrefetchAhead ==
    [][PrefetchAhead /\ RunSynthesisesEachOnce']_vars

\* C20: in read mode every cache entry under (voice, i) holds the audio
\* synthesised from the current chunks[i] with that voice.
C20_CacheContentConsistent ==
    mode = "read"
        => \A k \in DOMAIN audioCacheRef :
              /\ k[2] < Len(chunks)
              /\ audioCacheRef[k] = AudioBufferOf(chunks[k[2] + 1], k[1])

====
